---- MODULE Spec2Model ----
(***************************************************************************)
(* Host side of the USB DFU class protocol as implemented in src/dfu.c:    *)
(* the status decoder dfu_get_status, the helper dfu_abort_to_idle and the *)
(* flashing orchestrator dfu_flash.  The device, the USB transport         *)
(* (libusb), the file loader, the enumerator probe_devices and the         *)
(* download engine dfuload_do_dnload are the environment: every result     *)
(* they can hand back is drawn from a small set.                           *)
(***************************************************************************)
EXTENDS Integers, Sequences, FiniteSets, TLC

(***************************************************************************)
(* Bounds of the model.                                                    *)
(***************************************************************************)
\* calls of dfu_flash / dfu_abort_to_idle made by the host program
MaxCalls == 2
\* the retry cap the specification asks of the dfuERROR recovery loop
\* ("a finite cap, e.g. single-digit retries"); the code has none
RetryCap == 3

(***************************************************************************)
(* Program constants.  dfu.h, quirks.h and errno.h set them; dfu.c uses     *)
(* them by name.  The values are those of the DFU 1.0 class specification  *)
(* and of Linux.                                                           *)
(***************************************************************************)
\* DFU device states (bState), in the order of dfu_state_to_string
DFU_STATE_appIDLE == 0
DFU_STATE_appDETACH == 1
DFU_STATE_dfuIDLE == 2
DFU_STATE_dfuDNLOAD_SYNC == 3
DFU_STATE_dfuDNLOAD_IDLE == 5
DFU_STATE_dfuUPLOAD_IDLE == 9
DFU_STATE_dfuERROR == 10
\* the same code under the name dfu_get_status uses for its default
STATE_APP_IDLE == 0
STATE_APP_DETACH == 1
STATE_DFU_IDLE == 2
STATE_DFU_DOWNLOAD_SYNC == 3
STATE_DFU_DOWNLOAD_BUSY == 4
STATE_DFU_DOWNLOAD_IDLE == 5
STATE_DFU_MANIFEST_SYNC == 6
STATE_DFU_MANIFEST == 7
STATE_DFU_MANIFEST_WAIT_RESET == 8
STATE_DFU_UPLOAD_IDLE == 9
STATE_DFU_ERROR == 10
DFU_STATUS_errSTALLEDPKT == 15
\* DFU status codes (bStatus), indices of dfu_status_names
DFU_STATUS_OK == 0
DFU_STATUS_errWRITE == 3
DFU_STATUS_ERROR_UNKNOWN == 14
\* quirks.h
QUIRK_POLLTIMEOUT == 1
DEFAULT_POLLTIMEOUT == 5
\* errno values dfu_flash returns
EIO == 5
EFAULT == 14
ENODEV == 19
EINVAL == 22
\* the firmware image's wildcard id
WILDCARD_ID == 65535
\* a negative libusb error code (LIBUSB_ERROR_IO)
LIBUSB_ERROR == -1
\* bytes of a complete GETSTATUS response (wLength)
STATUS_LEN == 6

\* the null pointer
NULL == 0

(***************************************************************************)
(* Inputs the environment can produce.                                     *)
(***************************************************************************)
\* vendor / product ids of devices (0x0483:0xdf11 and 0x1234:0x5678)
Vendors == {1155, 4660}
Products == {57105, 22136}

\* the other Match Criteria as the source initializes them (NULL is 0)
DefaultCriteria ==
  [match_path |-> 0, match_vendor_dfu |-> -1, match_product_dfu |-> -1,
   match_config_index |-> -1, match_iface_index |-> -1,
   match_iface_alt_index |-> -1, match_devnum |-> -1,
   match_iface_alt_name |-> 0, match_serial |-> 0, match_serial_dfu |-> 0]

\* ... and as a caller that selects a device by hand has set them
CallerCriteria ==
  [DefaultCriteria EXCEPT !.match_config_index = 1, !.match_iface_index = 0,
                          !.match_iface_alt_index = 0, !.match_devnum = 7]

\* Match Criteria before the first call: match_vendor, match_product and the
\* rest, all unset or all set by the caller
InitialMatches == {<<-1, -1, DefaultCriteria>>, <<4660, 22136, CallerCriteria>>}

\* ids dfu_load_file reads from the firmware image
FileIds == {[idVendor |-> v, idProduct |-> p] :
              v \in {WILDCARD_ID, 1155}, p \in {WILDCARD_ID, 57105}}

\* wTransferSize as it sits in the functional descriptor: little-endian bytes
TransferSizeBytes == {<<0, 0>>, <<32, 0>>, <<0, 4>>}

\* interface descriptors the enumerator can resolve (dev_handle not yet attached)
Interfaces == {[vendor |-> v, product |-> p, wTransferSize |-> w,
                bMaxPacketSize0 |-> m, quirks |-> q, dev_handle |-> NULL] :
                 v \in Vendors, p \in Products,
                 w \in TransferSizeBytes, m \in {8, 64}, q \in {2, 3}}

\* a second match, when the enumerator finds more than one
OtherInterface == [vendor |-> 1155, product |-> 57105, wTransferSize |-> <<0, 4>>,
                   bMaxPacketSize0 |-> 64, quirks |-> 2, dev_handle |-> NULL]

\* what probe_devices can leave in dfu_root: no, one or two candidates
ProbeResults == {<<>>} \cup {<<d>> : d \in Interfaces}
                  \cup {<<d, OtherInterface>> : d \in {OtherInterface}}

\* device states a GETSTATUS response can carry in byte 4
ReportedStates == {DFU_STATE_appIDLE, DFU_STATE_appDETACH, DFU_STATE_dfuIDLE,
                   DFU_STATE_dfuDNLOAD_SYNC, DFU_STATE_dfuDNLOAD_IDLE,
                   DFU_STATE_dfuUPLOAD_IDLE, DFU_STATE_dfuERROR}

\* bytes 1..3 of a response: 0 ms, and 4294968 ms (0x418938), the smallest
\* poll-timeout whose microsecond count does not fit useconds_t
PollBytes == {<<0, 0, 0>>, <<56, 137, 65>>}

\* complete 6-byte GETSTATUS responses
StatusBuffers == {<<s, p[1], p[2], p[3], st, 2>> :
                    s \in {DFU_STATUS_OK, DFU_STATUS_errWRITE},
                    p \in PollBytes, st \in ReportedStates}

NoBuffer == <<>>

\* results of the GETSTATUS control transfer: an error, a short read, or 6 bytes
GetStatusTransfers == {[result |-> r, buffer |-> NoBuffer] : r \in {LIBUSB_ERROR, 0, 5}}
                        \cup {[result |-> STATUS_LEN, buffer |-> b] : b \in StatusBuffers}

\* inputs of dfu_get_status applied on its own: any quirk flags, any result of
\* the transfer from an error to 6 bytes, and responses whose six bytes differ
DecodeQuirks == 0 .. 3
DecodeBuffers == {<<b0, b1, b2, b3, b4, b5>> :
                    b0 \in {0, 3, 15, 200}, b1 \in {0, 1, 255}, b2 \in {0, 2, 255},
                    b3 \in {0, 3, 255}, b4 \in {2, 10, 11}, b5 \in {0, 4}}
DecodeTransfers == {[result |-> r, buffer |-> NoBuffer] : r \in {LIBUSB_ERROR} \cup (0 .. 5)}
                     \cup {[result |-> STATUS_LEN, buffer |-> b] : b \in DecodeBuffers}

\* arguments of the two lookups: an int, in and out of the named codes
StateCodes == (-2 .. 12) \cup {255}
StatusCodes == (-2 .. 17) \cup {255}

\* results of a control transfer without data stage (CLRSTATUS, ABORT)
NoDataResults == {0, LIBUSB_ERROR}

\* results of the download engine: bytes sent, or a negative error
EngineResults == {1024, -EIO}

\* results of libusb_init / libusb_open / claim / set_alt_setting
LibusbResults == {0, LIBUSB_ERROR}

VARIABLES
  pc,             \* position in dfu_flash / dfu_abort_to_idle
  calls,          \* calls made so far
  ret,            \* the running call's local `ret`
  retval,         \* value the last call returned
  finished,       \* the caller's *finished
  file,           \* dfu_file: idVendor, idProduct
  transfer_size,  \* dfu_flash's local transfer_size
  status,         \* the dfu_status record (status / dst)
  match_vendor, match_product,
  dfu_root,       \* list of matched interfaces
  dif,            \* argument of dfu_abort_to_idle
  openHandles,    \* handles opened by libusb_open and not yet closed
  lastReq,        \* last protocol exchange the host issued in this call
  reqSeq,         \* flips on every protocol exchange
  pending,        \* poll-timeout of the last GETSTATUS not yet slept on
  lastSleep,      \* the last sleep: poll-timeouts owed and microseconds slept
  run,            \* facts about the running call
  match_rest,     \* the Match Criteria other than match_vendor / match_product
  cell            \* a lookup or decode applied on its own: function, input, output

vars == <<pc, calls, ret, retval, finished, file, transfer_size, status,
          match_vendor, match_product, dfu_root, dif, openHandles,
          lastReq, reqSeq, pending, lastSleep, run, match_rest, cell>>

\* everything but `cell`
hostvars == <<pc, calls, ret, retval, finished, file, transfer_size, status,
              match_vendor, match_product, dfu_root, dif, openHandles,
              lastReq, reqSeq, pending, lastSleep, run, match_rest>>


(***************************************************************************)
(* Pure helpers.                                                           *)
(***************************************************************************)
Min(a, b) == IF a < b THEN a ELSE b

\* `flags & flag` for a single-bit flag
HasQuirk(flags, flag) == (flags \div flag) % 2 = 1

PollTimeoutOf_BigEndian(buffer) ==
  ((buffer[2] % 256) * 65536) + ((buffer[3] % 256) * 256) + (buffer[4] % 256)

\* ((0xff & buffer[3]) << 16) | ((0xff & buffer[2]) << 8) | (0xff & buffer[1]);
\* the C buffer is indexed from 0, the sequence from 1
PollTimeoutOf(buffer) ==
  ((buffer[4] % 256) * 65536) + ((buffer[3] % 256) * 256) + (buffer[2] % 256)

\* the record dfu_get_status starts from
DefaultStatus == [bStatus |-> DFU_STATUS_ERROR_UNKNOWN, bwPollTimeout |-> 0,
                  bState |-> STATE_DFU_ERROR, iString |-> 0]

\* dfu_get_status: the transfer's result and the record it leaves in *status
dfu_get_status(d, xfer) ==
  [ret |-> xfer.result,
   status |-> IF xfer.result = STATUS_LEN
              THEN [bStatus |-> xfer.buffer[1],
                    bwPollTimeout |-> IF HasQuirk(d.quirks, QUIRK_POLLTIMEOUT)
                                      THEN DEFAULT_POLLTIMEOUT
                                      ELSE PollTimeoutOf(xfer.buffer),
                    bState |-> xfer.buffer[5],
                    iString |-> xfer.buffer[6]]
              ELSE DefaultStatus]

\* the test callers make on dfu_get_status's return value: `ret < 0`
GetStatusFailed(r) == r < 0

NotIdle_Never(st) == FALSE

\* dfu_abort_to_idle's test of the state it read: `dst.bState != DFU_STATE_dfuIDLE`
NotIdle(st) == st.bState # DFU_STATE_dfuIDLE

\* A count of microseconds is kept as three 16-bit limbs <<d2, d1, d0>>, most
\* significant first (its value is d2 * 2^32 + d1 * 2^16 + d0): 2^24 ms in
\* microseconds is more than a 32-bit integer holds.
\* pollTimeout * 1000, exactly
Times1000(pollTimeout) ==
  LET low == (pollTimeout % 65536) * 1000
      mid == ((pollTimeout \div 65536) * 1000) + (low \div 65536)
  IN  <<mid \div 65536, mid % 65536, low % 65536>>

\* usleep(status.bwPollTimeout * 1000): the product is an unsigned int and
\* usleep takes a useconds_t, both 32 bits wide, so the limb above 2^32 is lost
UsleepArg(pollTimeout) ==
  LET product == Times1000(pollTimeout)
  IN  <<0, product[2], product[3]>>

\* milli_sleep(dst.bwPollTimeout): microseconds slept
MilliSleepUs(pollTimeout) == Times1000(pollTimeout)

\* libusb_le16_to_cpu on the descriptor's two bytes
libusb_le16_to_cpu(bytes) == bytes[1] + (256 * bytes[2])

\* AdoptId that overwrites a criterion the caller has set
AdoptId_Always(match, fileId) ==
  IF fileId # WILDCARD_ID THEN fileId ELSE match

\* match_vendor / match_product after the auto-adoption of the file's id
AdoptId(match, fileId) ==
  IF match < 0 /\ fileId # WILDCARD_ID THEN fileId ELSE match

\* IdMismatch without the wildcard test
IdMismatch_NoWildcard(f, d) ==
  \/ f.idVendor # d.vendor
  \/ f.idProduct # d.product

\* the file's ids against the resolved device's
IdMismatch(f, d) ==
  \/ (f.idVendor # WILDCARD_ID /\ f.idVendor # d.vendor)
  \/ (f.idProduct # WILDCARD_ID /\ f.idProduct # d.product)

\* ResolveError without the test of dfu_root->next
ResolveError_FirstOfMany(root, f) ==
  IF root = <<>> THEN ENODEV
  ELSE IF IdMismatch(f, root[1]) THEN EINVAL
  ELSE 0

\* ResolveError without the comparison of the file's ids
ResolveError_NoIdCheck(root, f) ==
  IF root = <<>> THEN ENODEV
  ELSE IF Len(root) > 1 THEN ENODEV
  ELSE 0

\* the checks on the enumerator's result: the error to leave with, or 0 to go on
ResolveError(root, f) ==
  IF root = <<>> THEN ENODEV
  ELSE IF Len(root) > 1 THEN ENODEV
  ELSE IF IdMismatch(f, root[1]) THEN EINVAL
  ELSE 0

\* LoopBranch without the dfuDNLOAD-IDLE / dfuUPLOAD-IDLE case
LoopBranch_NoAbort(bState) ==
  IF bState = DFU_STATE_dfuERROR THEN "clear" ELSE "break"

\* LoopBranch with the requests of the two recovery cases exchanged
LoopBranch_Swapped(bState) ==
  IF bState \in {DFU_STATE_appIDLE, DFU_STATE_appDETACH} THEN "break"
  ELSE IF bState = DFU_STATE_dfuERROR THEN "abort"
  ELSE IF bState \in {DFU_STATE_dfuDNLOAD_IDLE, DFU_STATE_dfuUPLOAD_IDLE} THEN "clear"
  ELSE "break"

\* the switch on status.bState in the normalization loop
LoopBranch(bState) ==
  IF bState \in {DFU_STATE_appIDLE, DFU_STATE_appDETACH} THEN "break"
  ELSE IF bState = DFU_STATE_dfuERROR THEN "clear"
  ELSE IF bState \in {DFU_STATE_dfuDNLOAD_IDLE, DFU_STATE_dfuUPLOAD_IDLE} THEN "abort"
  ELSE "break"

\* ResolveTransferSize without the clamp to bMaxPacketSize0
ResolveTransferSize_NoClamp(size, d) ==
  IF libusb_le16_to_cpu(d.wTransferSize) # 0 /\ size = 0
  THEN libusb_le16_to_cpu(d.wTransferSize) ELSE size

\* transfer-size negotiation, from the local transfer_size (0: no override)
ResolveTransferSize(size, d) ==
  LET func_dfu_transfer_size == libusb_le16_to_cpu(d.wTransferSize)
      picked == IF func_dfu_transfer_size # 0 /\ size = 0
                THEN func_dfu_transfer_size ELSE size
  IN  IF picked < d.bMaxPacketSize0 THEN d.bMaxPacketSize0 ELSE picked

\* ret after the download engine returned
RetAfterEngine(r, engineResult) == IF engineResult < 0 THEN EFAULT ELSE r

\* *finished = (ret != 0 ? -1 : 1)
FinishedOf(r) == IF r # 0 THEN -1 ELSE 1

(***************************************************************************)
(* Bookkeeping of what the host put on the wire.                           *)
(***************************************************************************)
NoReq == [op |-> "none", phase |-> "none", state |-> <<>>, result |-> 0, owed |-> {}]

\* an exchange: the request, where it was issued from, the bState it decoded
\* (GETSTATUS only), the transfer's result, and the poll-timeouts the host had
\* not yet slept on when it issued the request
Req(op, phase, state, result) ==
  [op |-> op, phase |-> phase, state |-> state, result |-> result, owed |-> pending]

\* the host issues one protocol exchange
Issue(req) ==
  /\ lastReq' = req
  /\ reqSeq' = 1 - reqSeq

\* the host sleeps for `us` microseconds
Sleep(us) ==
  /\ lastSleep' = <<[owed |-> pending, us |-> us]>>
  /\ pending' = {}

\* probed, opened: probe_devices / libusb_open done; engine*: the engine's calls,
\* transfer size and result; loopState, loopStatus: bState and bStatus of the
\* loop's last GETSTATUS; clrRun: CLRSTATUS issued in a row by the loop;
\* loopGets, loopFixes: GETSTATUS and CLRSTATUS/ABORT issued by the loop while
\* it runs (counted to 3 and 2, dropped when the loop is left); trail: the
\* steps of the call in the order they were completed
FreshRun == [probed |-> FALSE, opened |-> FALSE, engineCalls |-> 0,
             engineXfer |-> 0, engineRet |-> 0, loopState |-> <<>>,
             clrRun |-> 0, loopStatus |-> <<>>, loopGets |-> 0, loopFixes |-> 0,
             trail |-> <<>>]

\* no lookup or decode has been applied
NoCell == [fn |-> "none", in |-> <<>>, out |-> <<>>]

UninitStatus == [bStatus |-> 0, bwPollTimeout |-> 0, bState |-> 0, iString |-> 0]

NoFile == [idVendor |-> 0, idProduct |-> 0]

NoDif == [quirks |-> 0]

\* places where the host program can make its next call
CallPoints == {"idle", "returned", "ati_returned"}

Init ==
  /\ pc = "idle"
  /\ calls = 0
  /\ ret = 0
  /\ retval = 0
  /\ finished \in {-1, 0, 1}
  /\ file = NoFile
  /\ transfer_size = 0
  /\ status = UninitStatus
  /\ \E m \in InitialMatches :
       match_vendor = m[1] /\ match_product = m[2] /\ match_rest = m[3]
  /\ dfu_root = <<>>
  /\ dif = NoDif
  /\ openHandles = 0
  /\ lastReq = NoReq
  /\ reqSeq = 0
  /\ pending = {}
  /\ lastSleep = <<>>
  /\ run = FreshRun
  /\ cell = NoCell


(***************************************************************************)
(* dfu_flash, one action per call it makes to its collaborators.           *)
(***************************************************************************)
\* a call starts: the bookkeeping of the previous call is dropped
NewCall ==
  /\ calls' = calls + 1
  /\ lastReq' = NoReq
  /\ pending' = {}
  /\ lastSleep' = <<>>
  /\ run' = FreshRun

\* errx(): the message is printed and the process ends
Errx == pc' = "exited"

\* entry, libusb_init, reset of dfu_root and *finished
FlashEnter ==
  /\ pc \in CallPoints
  /\ calls < MaxCalls
  /\ NewCall
  /\ \E initRet \in LibusbResults :
       /\ ret' = initRet
       /\ IF initRet # 0
          THEN pc' = "returned" /\ retval' = EIO
          ELSE pc' = "load" /\ retval' = 0
  /\ file' = NoFile
  /\ transfer_size' = 0
  /\ dfu_root' = <<>>
  /\ finished' = 0
  /\ status' = UninitStatus
  /\ dif' = NoDif
  /\ UNCHANGED <<match_vendor, match_product, openHandles, reqSeq>>
  /\ UNCHANGED <<match_rest, cell>>

\* dfu_flash_filename when open() fails: err stays ENODEV, dfu_flash is not
\* called and *finished is not written. When open() succeeds the call is
\* dfu_flash's (FlashEnter onwards) and its result is handed back as it is.
FlashFilenameNoFile ==
  /\ pc \in CallPoints
  /\ calls < MaxCalls
  /\ NewCall
  /\ retval' = ENODEV
  /\ pc' = "returned"
  /\ UNCHANGED <<ret, finished, file, transfer_size, status, match_vendor,
                 match_product, dfu_root, dif, openHandles, reqSeq>>
  /\ UNCHANGED <<match_rest, cell>>

\* dfu_load_file and the adoption of the file's ids as Match Criteria
FlashLoad ==
  /\ pc = "load"
  /\ \E f \in FileIds :
       /\ file' = f
       /\ match_vendor' = AdoptId(match_vendor, f.idVendor)
       /\ match_product' = AdoptId(match_product, f.idProduct)
  /\ pc' = "probe"
  /\ UNCHANGED <<calls, ret, retval, finished, transfer_size, status, dfu_root, dif,
                 openHandles, lastReq, reqSeq, pending, lastSleep, run>>
  /\ UNCHANGED <<match_rest, cell>>

\* probe_devices and the checks on what it found
FlashProbe ==
  /\ pc = "probe"
  /\ \E found \in ProbeResults :
       /\ dfu_root' = found
       /\ LET err == ResolveError(found, file)
          IN  IF err # 0
              THEN ret' = err /\ pc' = "out"
              ELSE ret' = ret /\ pc' = "open"
  /\ run' = [run EXCEPT !.probed = TRUE, !.trail = Append(@, "probe")]
  /\ UNCHANGED <<calls, retval, finished, file, transfer_size, status, match_vendor,
                 match_product, dif, openHandles, lastReq, reqSeq, pending, lastSleep>>
  /\ UNCHANGED <<match_rest, cell>>

\* libusb_open
FlashOpen ==
  /\ pc = "open"
  /\ \E r \in LibusbResults :
       /\ ret' = r
       /\ IF r # 0
          THEN /\ Errx
               /\ UNCHANGED <<dfu_root, openHandles, run>>
          ELSE /\ pc' = "claim"
               /\ dfu_root' = [dfu_root EXCEPT ![1].dev_handle = 1]
               /\ openHandles' = openHandles + 1
               /\ run' = [run EXCEPT !.opened = TRUE, !.trail = Append(@, "open")]
  /\ UNCHANGED <<calls, retval, finished, file, transfer_size, status, match_vendor,
                 match_product, dif, lastReq, reqSeq, pending, lastSleep>>
  /\ UNCHANGED <<match_rest, cell>>

\* libusb_claim_interface
FlashClaim ==
  /\ pc = "claim"
  /\ \E r \in LibusbResults :
       /\ ret' = r
       /\ IF r < 0
          THEN Errx /\ run' = run
          ELSE pc' = "setalt" /\ run' = [run EXCEPT !.trail = Append(@, "claim")]
  /\ UNCHANGED <<calls, retval, finished, file, transfer_size, status, match_vendor,
                 match_product, dfu_root, dif, openHandles, lastReq, reqSeq, pending,
                 lastSleep>>
  /\ UNCHANGED <<match_rest, cell>>

\* libusb_set_interface_alt_setting
FlashSetAlt ==
  /\ pc = "setalt"
  /\ \E r \in LibusbResults :
       /\ ret' = r
       /\ IF r < 0
          THEN Errx /\ run' = run
          ELSE pc' = "get" /\ run' = [run EXCEPT !.trail = Append(@, "setalt")]
  /\ UNCHANGED <<calls, retval, finished, file, transfer_size, status, match_vendor,
                 match_product, dfu_root, dif, openHandles, lastReq, reqSeq, pending,
                 lastSleep>>
  /\ UNCHANGED <<match_rest, cell>>

\* status_again: GETSTATUS of the normalization loop
FlashGetStatus ==
  /\ pc = "get"
  /\ \E xfer \in GetStatusTransfers :
       LET got == dfu_get_status(dfu_root[1], xfer)
       IN  /\ ret' = got.ret
           /\ status' = got.status
           /\ Issue(Req("GETSTATUS", "loop", <<got.status.bState>>, got.ret))
           /\ pending' = {got.status.bwPollTimeout}
           /\ run' = [run EXCEPT !.loopState = <<got.status.bState>>,
                                 !.loopStatus = <<got.status.bStatus>>,
                                 !.clrRun = IF got.status.bState = DFU_STATE_dfuERROR
                                            THEN @ ELSE 0,
                                 !.loopGets = Min(@ + 1, 3),
                                 !.trail = IF run.loopGets = 0
                                           THEN Append(@, "getstatus") ELSE @]
  /\ pc' = "sleep"
  /\ UNCHANGED <<calls, retval, finished, file, transfer_size, match_vendor,
                 match_product, dfu_root, dif, openHandles, lastSleep>>
  /\ UNCHANGED <<match_rest, cell>>

\* usleep(status.bwPollTimeout * 1000) of the normalization loop
FlashSleep ==
  /\ pc = "sleep"
  /\ Sleep(UsleepArg(status.bwPollTimeout))
  /\ pc' = "switch"
  /\ UNCHANGED <<calls, ret, retval, finished, file, transfer_size, status,
                 match_vendor, match_product, dfu_root, dif, openHandles, lastReq,
                 reqSeq, run>>
  /\ UNCHANGED <<match_rest, cell>>

\* case dfuERROR: CLRSTATUS, goto status_again
FlashLoopClear ==
  /\ pc = "switch"
  /\ LoopBranch(status.bState) = "clear"
  /\ \E r \in NoDataResults : Issue(Req("CLRSTATUS", "loop", <<>>, r))
  /\ run' = [run EXCEPT !.clrRun = Min(@ + 1, RetryCap + 1),
                        !.loopFixes = Min(@ + 1, 2)]
  /\ pc' = "get"
  /\ UNCHANGED <<calls, ret, retval, finished, file, transfer_size, status,
                 match_vendor, match_product, dfu_root, dif, openHandles, pending,
                 lastSleep>>
  /\ UNCHANGED <<match_rest, cell>>

\* case dfuDNLOAD-IDLE, dfuUPLOAD-IDLE: ABORT, goto status_again
FlashLoopAbort ==
  /\ pc = "switch"
  /\ LoopBranch(status.bState) = "abort"
  /\ \E r \in NoDataResults : Issue(Req("ABORT", "loop", <<>>, r))
  /\ run' = [run EXCEPT !.loopFixes = Min(@ + 1, 2)]
  /\ pc' = "get"
  /\ UNCHANGED <<calls, ret, retval, finished, file, transfer_size, status,
                 match_vendor, match_product, dfu_root, dif, openHandles, pending,
                 lastSleep>>
  /\ UNCHANGED <<match_rest, cell>>

\* every other case leaves the switch; the test of status.bStatus follows
FlashLoopBreak ==
  /\ pc = "switch"
  /\ LoopBranch(status.bState) = "break"
  /\ pc' = IF status.bStatus # DFU_STATUS_OK THEN "post_clear" ELSE "xfer"
  /\ run' = [run EXCEPT !.loopGets = 0, !.loopFixes = 0]
  /\ UNCHANGED <<calls, ret, retval, finished, file, transfer_size, status,
                 match_vendor, match_product, dfu_root, dif, openHandles, lastReq,
                 reqSeq, pending, lastSleep>>
  /\ UNCHANGED <<match_rest, cell>>

\* status not OK: CLRSTATUS
FlashPostClear ==
  /\ pc = "post_clear"
  /\ \E r \in NoDataResults : Issue(Req("CLRSTATUS", "post", <<>>, r))
  /\ pc' = "post_get"
  /\ UNCHANGED <<calls, ret, retval, finished, file, transfer_size, status,
                 match_vendor, match_product, dfu_root, dif, openHandles, pending,
                 lastSleep, run>>
  /\ UNCHANGED <<match_rest, cell>>

\* ... then GETSTATUS, whose result is only reported
FlashPostGetStatus ==
  /\ pc = "post_get"
  /\ \E xfer \in GetStatusTransfers :
       LET got == dfu_get_status(dfu_root[1], xfer)
       IN  /\ status' = got.status
           /\ Issue(Req("GETSTATUS", "post", <<got.status.bState>>, got.ret))
           /\ pending' = {got.status.bwPollTimeout}
  /\ pc' = "post_sleep"
  /\ UNCHANGED <<calls, ret, retval, finished, file, transfer_size, match_vendor,
                 match_product, dfu_root, dif, openHandles, lastSleep, run>>
  /\ UNCHANGED <<match_rest, cell>>

\* ... and usleep on its poll-timeout
FlashPostSleep ==
  /\ pc = "post_sleep"
  /\ Sleep(UsleepArg(status.bwPollTimeout))
  /\ pc' = "xfer"
  /\ UNCHANGED <<calls, ret, retval, finished, file, transfer_size, status,
                 match_vendor, match_product, dfu_root, dif, openHandles, lastReq,
                 reqSeq, run>>
  /\ UNCHANGED <<match_rest, cell>>

\* transfer-size negotiation and the download engine
FlashDnload ==
  /\ pc = "xfer"
  /\ transfer_size' = ResolveTransferSize(transfer_size, dfu_root[1])
  /\ \E e \in EngineResults :
       /\ ret' = RetAfterEngine(ret, e)
       /\ Issue(Req("DNLOAD", "engine", <<>>, e))
       /\ run' = [run EXCEPT !.trail = Append(@, "engine"),
                             !.engineCalls = @ + 1,
                             !.engineXfer = transfer_size',
                             !.engineRet = e]
  /\ pc' = "close"
  /\ UNCHANGED <<calls, retval, finished, file, status, match_vendor, match_product,
                 dfu_root, dif, openHandles, pending, lastSleep>>
  /\ UNCHANGED <<match_rest, cell>>

\* libusb_close
FlashClose ==
  /\ pc = "close"
  /\ openHandles' = openHandles - 1
  /\ dfu_root' = [dfu_root EXCEPT ![1].dev_handle = NULL]
  /\ pc' = "out"
  /\ UNCHANGED <<calls, ret, retval, finished, file, transfer_size, status,
                 match_vendor, match_product, dif, lastReq, reqSeq, pending,
                 lastSleep, run>>
  /\ UNCHANGED <<match_rest, cell>>

\* out: libusb_exit, *finished, return ret
FlashOut ==
  /\ pc = "out"
  /\ finished' = FinishedOf(ret)
  /\ retval' = ret
  /\ pc' = "returned"
  /\ UNCHANGED <<calls, ret, file, transfer_size, status, match_vendor,
                 match_product, dfu_root, dif, openHandles, lastReq, reqSeq, pending,
                 lastSleep, run>>
  /\ UNCHANGED <<match_rest, cell>>

(***************************************************************************)
(* dfu_abort_to_idle.                                                      *)
(***************************************************************************)
\* the caller passes an interface of its own
AbortToIdleEnter ==
  /\ pc \in CallPoints
  /\ calls < MaxCalls
  /\ NewCall
  /\ \E q \in {2, 3} : dif' = [quirks |-> q]
  /\ ret' = 0
  /\ retval' = 0
  /\ status' = UninitStatus
  /\ pc' = "ati_abort"
  /\ UNCHANGED <<finished, file, transfer_size, match_vendor, match_product,
                 dfu_root, openHandles, reqSeq>>
  /\ UNCHANGED <<match_rest, cell>>

\* dfu_abort
AbortToIdleAbort ==
  /\ pc = "ati_abort"
  /\ \E r \in NoDataResults :
       /\ ret' = r
       /\ Issue(Req("ABORT", "abort_to_idle", <<>>, r))
       /\ IF r < 0 THEN Errx ELSE pc' = "ati_get"
  /\ UNCHANGED <<calls, retval, finished, file, transfer_size, status, match_vendor,
                 match_product, dfu_root, dif, openHandles, pending, lastSleep, run>>
  /\ UNCHANGED <<match_rest, cell>>

\* dfu_get_status and the two checks on it
AbortToIdleGetStatus ==
  /\ pc = "ati_get"
  /\ \E xfer \in GetStatusTransfers :
       LET got == dfu_get_status(dif, xfer)
       IN  /\ ret' = got.ret
           /\ status' = got.status
           /\ Issue(Req("GETSTATUS", "abort_to_idle", <<got.status.bState>>, got.ret))
           /\ pending' = {got.status.bwPollTimeout}
           /\ IF GetStatusFailed(got.ret) THEN Errx
              ELSE IF NotIdle(got.status) THEN Errx
              ELSE pc' = "ati_sleep"
  /\ UNCHANGED <<calls, retval, finished, file, transfer_size, match_vendor,
                 match_product, dfu_root, dif, openHandles, lastSleep, run>>
  /\ UNCHANGED <<match_rest, cell>>

\* milli_sleep(dst.bwPollTimeout); return ret
AbortToIdleSleep ==
  /\ pc = "ati_sleep"
  /\ Sleep(MilliSleepUs(status.bwPollTimeout))
  /\ retval' = ret
  /\ pc' = "ati_returned"
  /\ UNCHANGED <<calls, ret, finished, file, transfer_size, status, match_vendor,
                 match_product, dfu_root, dif, openHandles, lastReq, reqSeq, run>>
  /\ UNCHANGED <<match_rest, cell>>

Next ==
  \/ FlashFilenameNoFile
  \/ FlashEnter
  \/ FlashLoad
  \/ FlashProbe
  \/ FlashOpen
  \/ FlashClaim
  \/ FlashSetAlt
  \/ FlashGetStatus
  \/ FlashSleep
  \/ FlashLoopClear
  \/ FlashLoopAbort
  \/ FlashLoopBreak
  \/ FlashPostClear
  \/ FlashPostGetStatus
  \/ FlashPostSleep
  \/ FlashDnload
  \/ FlashClose
  \/ FlashOut
  \/ AbortToIdleEnter
  \/ AbortToIdleAbort
  \/ AbortToIdleGetStatus
  \/ AbortToIdleSleep

Spec == Init /\ [][Next]_vars

(***************************************************************************)
(* dfu_flash against a protocol-compliant device: no transfer fails, every *)
(* GETSTATUS returns 6 bytes, and the state the device reports is the one  *)
(* it reported before, moved by the request it was sent since.             *)
(***************************************************************************)
\* the device's state after a request
DeviceAfter(state, op) ==
  IF op = "CLRSTATUS" /\ state = DFU_STATE_dfuERROR THEN DFU_STATE_dfuIDLE
  ELSE IF op = "ABORT" /\ state \in {DFU_STATE_dfuDNLOAD_IDLE, DFU_STATE_dfuUPLOAD_IDLE}
       THEN DFU_STATE_dfuIDLE
  ELSE state

CompliantOpen == FlashOpen /\ pc' # "exited"

CompliantClaim == FlashClaim /\ pc' # "exited"

CompliantSetAlt == FlashSetAlt /\ pc' # "exited"

\* the first GETSTATUS of a call finds the device in any state
CompliantGetStatus ==
  /\ FlashGetStatus
  /\ ret' = STATUS_LEN
  /\ run.loopState # <<>> =>
       status'.bState = DeviceAfter(run.loopState[1], lastReq.op)

CompliantLoopClear == FlashLoopClear /\ lastReq'.result = 0

CompliantLoopAbort == FlashLoopAbort /\ lastReq'.result = 0

CompliantPostClear == FlashPostClear /\ lastReq'.result = 0

CompliantPostGetStatus ==
  /\ FlashPostGetStatus
  /\ lastReq'.result = STATUS_LEN
  /\ status'.bState = DeviceAfter(run.loopState[1], lastReq.op)

\* the steps of a call that is under way
CompliantStep ==
  \/ FlashLoad
  \/ FlashProbe
  \/ CompliantOpen
  \/ CompliantClaim
  \/ CompliantSetAlt
  \/ CompliantGetStatus
  \/ FlashSleep
  \/ CompliantLoopClear
  \/ CompliantLoopAbort
  \/ FlashLoopBreak
  \/ CompliantPostClear
  \/ CompliantPostGetStatus
  \/ FlashPostSleep
  \/ FlashDnload
  \/ FlashClose
  \/ FlashOut

CompliantNext ==
  \/ FlashEnter
  \/ CompliantStep

\* a call that is under way keeps running: its collaborators return and its
\* sleeps end; the host need not make another call
CompliantSpec == Init /\ [][CompliantNext]_vars /\ WF_vars(CompliantStep)

(***************************************************************************)
(* The status decoder and the two lookups, applied on their own.           *)
(***************************************************************************)
\* dfu_state_to_string: <<label>>, or <<>> for the NULL of the default case
dfu_state_to_string(state) ==
  CASE state = STATE_APP_IDLE -> <<"appIDLE">>
    [] state = STATE_APP_DETACH -> <<"appDETACH">>
    [] state = STATE_DFU_IDLE -> <<"dfuIDLE">>
    [] state = STATE_DFU_DOWNLOAD_SYNC -> <<"dfuDNLOAD-SYNC">>
    [] state = STATE_DFU_DOWNLOAD_BUSY -> <<"dfuDNBUSY">>
    [] state = STATE_DFU_DOWNLOAD_IDLE -> <<"dfuDNLOAD-IDLE">>
    [] state = STATE_DFU_MANIFEST_SYNC -> <<"dfuMANIFEST-SYNC">>
    [] state = STATE_DFU_MANIFEST -> <<"dfuMANIFEST">>
    [] state = STATE_DFU_MANIFEST_WAIT_RESET -> <<"dfuMANIFEST-WAIT-RESET">>
    [] state = STATE_DFU_UPLOAD_IDLE -> <<"dfuUPLOAD-IDLE">>
    [] state = STATE_DFU_ERROR -> <<"dfuERROR">>
    [] OTHER -> <<>>

dfu_status_names ==
  << "No error condition is present",
     "File is not targeted for use by this device",
     "File is for this device but fails some vendor-specific test",
     "Device is unable to write memory",
     "Memory erase function failed",
     "Memory erase check failed",
     "Program memory function failed",
     "Programmed memory failed verification",
     "Cannot program memory due to received address that is out of range",
     "Received DFU_DNLOAD with wLength = 0, but device does not think that it has all data yet",
     "Device's firmware is corrupt. It cannot return to run-time (non-DFU) operations",
     "iString indicates a vendor specific error",
     "Device detected unexpected USB reset signalling",
     "Device detected unexpected power on reset",
     "Something went wrong, but the device does not know what it was",
     "Device stalled an unexpected request" >>

\* what a read before the start of dfu_status_names can hand back: the pointer
\* is whatever lies there, one of the program's strings or no string at all
WildPointers == {<<n>> : n \in {dfu_status_names[i] : i \in 1 .. 16} \cup {"INVALID"}}
                  \cup {<<>>}

\* dfu_status_to_string: the set of values the call can return; the table is
\* indexed from 0 in C and from 1 here, and only the upper bound is tested
dfu_status_to_string(st) ==
  IF st > DFU_STATUS_errSTALLEDPKT THEN {<<"INVALID">>}
  ELSE IF st >= 0 THEN {<<dfu_status_names[st + 1]>>}
  ELSE WildPointers

\* dfu_get_status on one transfer
ApplyGetStatus ==
  /\ cell = NoCell
  /\ \E q \in DecodeQuirks, xfer \in DecodeTransfers :
       LET got == dfu_get_status([quirks |-> q], xfer)
       IN  cell' = [fn |-> "dfu_get_status",
                    in |-> <<q, xfer.result>> \o xfer.buffer,
                    out |-> <<got.ret, got.status.bStatus, got.status.bwPollTimeout,
                              got.status.bState, got.status.iString>>]
  /\ UNCHANGED hostvars

\* dfu_state_to_string on one code
ApplyStateToString ==
  /\ cell = NoCell
  /\ \E c \in StateCodes :
       cell' = [fn |-> "dfu_state_to_string", in |-> <<c>>,
                out |-> dfu_state_to_string(c)]
  /\ UNCHANGED hostvars

\* dfu_status_to_string on one code
ApplyStatusToString ==
  /\ cell = NoCell
  /\ \E c \in StatusCodes :
       \E o \in dfu_status_to_string(c) :
         cell' = [fn |-> "dfu_status_to_string", in |-> <<c>>, out |-> o]
  /\ UNCHANGED hostvars

DecodeNext ==
  \/ ApplyGetStatus
  \/ ApplyStateToString
  \/ ApplyStatusToString

DecodeSpec == Init /\ [][DecodeNext]_vars


(***************************************************************************)
(* Properties.                                                             *)
(***************************************************************************)
RuntimeStates == {DFU_STATE_appIDLE, DFU_STATE_appDETACH}
StaleTransferStates == {DFU_STATE_dfuDNLOAD_IDLE, DFU_STATE_dfuUPLOAD_IDLE}

\* the running (or last) call is a dfu_flash that resolved exactly one device
Resolved == run.probed /\ Len(dfu_root) = 1

\* the call has ended with a failure reported to the caller
ReportsFailure == retval # 0 /\ finished = -1

\* C1: when dfu_flash returns after it invoked the download engine, it reports
\* success (returns 0, *finished = 1) if the engine succeeded and failure
\* (non-zero, *finished = -1) if the engine failed.
C1_EngineOutcomeReported ==
  (pc = "returned" /\ run.engineCalls > 0) =>
     IF run.engineRet >= 0
     THEN retval = 0 /\ finished = 1
     ELSE retval # 0 /\ finished = -1

\* C2: once a GETSTATUS of the normalization loop reported appIDLE or
\* appDETACH, that GETSTATUS stays the last control request of the call, the
\* download engine is not invoked, and the call returns a failure.
C2_RuntimeModeFailsFast ==
  (run.loopState # <<>> /\ run.loopState[1] \in RuntimeStates) =>
     /\ lastReq.op = "GETSTATUS" /\ lastReq.phase = "loop"
     /\ run.engineCalls = 0
     /\ pc = "returned" => ReportsFailure

\* C3: the normalization loop never issues more than RetryCap consecutive
\* CLRSTATUS retries on repeated dfuERROR.
C3_ClearRetriesCapped == run.clrRun <= RetryCap

\* C4: at most one device handle is open at any time, and whenever a call has
\* ended - by returning or by ending the process - no handle is left open.
C4_HandleClosedOnExit ==
  /\ openHandles <= 1
  /\ pc \in (CallPoints \cup {"exited"}) => openHandles = 0

\* C5: when the resolved interface advertises wTransferSize 0 (dfu_flash has no
\* override), the download engine is not invoked and the call returns a failure.
C5_ZeroTransferSizeRejected ==
  (Resolved /\ libusb_le16_to_cpu(dfu_root[1].wTransferSize) = 0) =>
     /\ run.engineCalls = 0
     /\ pc = "returned" => ReportsFailure

\* C6: when the enumerator yields no candidate or more than one, dfu_flash
\* opens no handle, issues no control transfer and returns a failure.
C6_NoSingleCandidateFails ==
  (run.probed /\ Len(dfu_root) # 1) =>
     /\ ~run.opened /\ openHandles = 0
     /\ lastReq = NoReq /\ run.engineCalls = 0
     /\ pc \in {"out", "returned"}
     /\ pc = "returned" => ReportsFailure

C6_Witness ==
  pc = "returned" /\ run.probed /\ Len(dfu_root) = 2 /\ retval = ENODEV

\* C7: when the file declares a vendor or product id that is not the wildcard
\* and differs from the resolved device's, dfu_flash fails without opening the
\* device and without a control transfer; when every id of the file is the
\* wildcard or equals the device's, the call does not end on the mismatch error.
C7_IdMismatchFailsBeforeOpen ==
  Resolved =>
    LET d == dfu_root[1]
        vendorDiffers == file.idVendor # WILDCARD_ID /\ file.idVendor # d.vendor
        productDiffers == file.idProduct # WILDCARD_ID /\ file.idProduct # d.product
    IN  /\ (vendorDiffers \/ productDiffers) =>
              /\ ~run.opened /\ openHandles = 0
              /\ lastReq = NoReq /\ run.engineCalls = 0
              /\ pc \in {"out", "returned"}
              /\ pc = "returned" => ReportsFailure
        /\ ~(vendorDiffers \/ productDiffers) =>
              ~(pc \in {"out", "returned"} /\ ret = EINVAL)

C7_Witness ==
  /\ pc = "returned" /\ Resolved /\ retval = EINVAL
  /\ file.idVendor = WILDCARD_ID
  /\ file.idProduct # dfu_root[1].product

\* C8: after a GETSTATUS of the normalization loop reported dfuDNLOAD-IDLE or
\* dfuUPLOAD-IDLE the call goes on and the next request is ABORT; the request
\* after that ABORT is GETSTATUS; and the download engine is invoked only when
\* the loop's last GETSTATUS reported none of dfuDNLOAD-IDLE, dfuUPLOAD-IDLE,
\* dfuERROR.
C8_StaleTransferAborted ==
  [][/\ (/\ lastReq.op = "GETSTATUS" /\ lastReq.phase = "loop"
         /\ lastReq.state[1] \in StaleTransferStates) =>
           /\ pc' \in {"sleep", "switch", "get"}
           /\ reqSeq' # reqSeq => lastReq'.op = "ABORT" /\ lastReq'.phase = "loop"
     /\ (lastReq.op = "ABORT" /\ lastReq.phase = "loop") =>
           /\ pc' = "sleep"
           /\ reqSeq' # reqSeq
           /\ lastReq'.op = "GETSTATUS" /\ lastReq'.phase = "loop"
     /\ run'.engineCalls > run.engineCalls =>
           /\ run.loopState # <<>>
           /\ run.loopState[1] \notin
                (StaleTransferStates \cup {DFU_STATE_dfuERROR})
    ]_vars

C8_Witness ==
  /\ pc = "get"
  /\ lastReq.op = "ABORT" /\ lastReq.phase = "loop"
  /\ run.loopState = <<DFU_STATE_dfuDNLOAD_IDLE>>

\* C9: every protocol exchange is issued with no poll-timeout outstanding (the
\* host slept after the last GETSTATUS), and every sleep lasts the poll-timeout
\* of the GETSTATUS it follows.
C9_PollTimeoutHonored ==
  /\ lastReq.owed = {}
  /\ lastSleep # <<>> =>
       \A p \in lastSleep[1].owed : lastSleep[1].us = Times1000(p)

\* C10: the transfer size handed to the download engine is at least
\* bMaxPacketSize0, and is the descriptor's wTransferSize when that is non-zero
\* and at least bMaxPacketSize0.
C10_TransferSizeClamped ==
  run.engineCalls > 0 =>
    LET d == dfu_root[1]
        wTransferSize == d.wTransferSize[1] + (256 * d.wTransferSize[2])
    IN  /\ run.engineXfer >= d.bMaxPacketSize0
        /\ (wTransferSize # 0 /\ wTransferSize >= d.bMaxPacketSize0) =>
              run.engineXfer = wTransferSize

C10_Witness ==
  /\ run.engineCalls > 0
  /\ run.engineXfer = 64
  /\ dfu_root[1].wTransferSize = <<32, 0>>

\* C11: a CLRSTATUS of the normalization loop answers a device report: the
\* GETSTATUS before it returned a complete status record, never a transport
\* error or a short response.
C11_TransportFailureNotDeviceState ==
  (pc = "get" /\ lastReq.op = "CLRSTATUS" /\ lastReq.phase = "loop") =>
    ret = STATUS_LEN

\* C12: dfu_get_status on a response of exactly 6 bytes leaves bStatus = byte 0,
\* bState = byte 4, iString = byte 5 and does not report failure; on any shorter
\* result (a transport error, or 0 to 5 bytes) it leaves exactly the record
\* {unknown error, 0, dfuERROR, 0} and its return value tells the caller that
\* the call failed.
C12_ShortStatusReportedFailed ==
  cell.fn = "dfu_get_status" =>
    IF cell.in[2] = STATUS_LEN
    THEN /\ cell.out[2] = cell.in[3]
         /\ cell.out[4] = cell.in[7]
         /\ cell.out[5] = cell.in[8]
         /\ ~GetStatusFailed(cell.out[1])
    ELSE /\ <<cell.out[2], cell.out[3], cell.out[4], cell.out[5]>> =
              <<DFU_STATUS_ERROR_UNKNOWN, 0, DFU_STATE_dfuERROR, 0>>
         /\ GetStatusFailed(cell.out[1])

\* C13: dfu_abort_to_idle issues ABORT first; it issues GETSTATUS only after an
\* ABORT that succeeded, and a failed ABORT ends the process with no GETSTATUS;
\* it returns normally only after a GETSTATUS that returned a complete status
\* record whose state is dfuIDLE, and every other outcome ends the process.
C13_AbortToIdleReturnsOnlyIdle ==
  LET last(op) == lastReq.op = op /\ lastReq.phase = "abort_to_idle"
  IN  /\ pc = "ati_abort" => lastReq = NoReq
      /\ pc = "ati_get" => last("ABORT") /\ lastReq.result >= 0
      /\ (last("ABORT") /\ lastReq.result < 0) => pc = "exited"
      /\ last("GETSTATUS") => pc \in {"ati_sleep", "ati_returned", "exited"}
      /\ pc \in {"ati_sleep", "ati_returned"} =>
           /\ last("GETSTATUS")
           /\ lastReq.result = STATUS_LEN
           /\ lastReq.state = <<DFU_STATE_dfuIDLE>>
           /\ status.bState = DFU_STATE_dfuIDLE
      /\ (pc = "exited" /\ last("GETSTATUS")) =>
           lastReq.result # STATUS_LEN \/ lastReq.state # <<DFU_STATE_dfuIDLE>>

\* dfu_abort_to_idle has returned
C13_Witness ==
  /\ pc = "ati_returned"
  /\ lastReq.op = "GETSTATUS" /\ lastReq.phase = "abort_to_idle"
  /\ retval = STATUS_LEN

\* C14: on a 6-byte response, bwPollTimeout is byte1 + 256 * byte2 + 65536 * byte3
\* (a value in 0 .. 2^24 - 1) when the interface does not carry the poll-timeout
\* quirk, and DEFAULT_POLLTIMEOUT whatever the three bytes are when it does;
\* bStatus, bState and iString are decoded the same with and without the quirk.
C14_PollTimeoutDecoded ==
  (cell.fn = "dfu_get_status" /\ cell.in[2] = STATUS_LEN) =>
    LET quirks == cell.in[1]
        byte(i) == cell.in[i + 3]
        bwPollTimeout == cell.out[3]
    IN  /\ IF HasQuirk(quirks, QUIRK_POLLTIMEOUT)
           THEN bwPollTimeout = DEFAULT_POLLTIMEOUT
           ELSE /\ bwPollTimeout = byte(1) + (256 * byte(2)) + (65536 * byte(3))
                /\ bwPollTimeout \in 0 .. 16777215
        /\ <<cell.out[2], cell.out[4], cell.out[5]>> = <<byte(0), byte(4), byte(5)>>

\* a response whose three poll-timeout bytes differ, decoded without the quirk
C14_Witness ==
  /\ cell.fn = "dfu_get_status"
  /\ cell.in[2] = STATUS_LEN
  /\ <<cell.in[1], cell.in[4], cell.in[5], cell.in[6]>> = <<2, 1, 2, 3>>
  /\ cell.out[3] = 197121

\* C15: both lookups answer every input. dfu_state_to_string returns a label
\* for exactly the eleven named state codes, "dfuIDLE" for dfuIDLE, and no
\* label for any other code; dfu_status_to_string returns the sentence of the
\* table for each code 0 .. 15 (the "no error condition" sentence for code 0),
\* "INVALID" for any code above 15, and never anything but one of these
\* seventeen strings.
C15_LookupsTotal ==
  /\ cell.fn = "dfu_state_to_string" =>
       /\ cell.out # <<>> <=> cell.in[1] \in 0 .. 10
       /\ cell.in[1] = DFU_STATE_dfuIDLE => cell.out = <<"dfuIDLE">>
  /\ cell.fn = "dfu_status_to_string" =>
       /\ cell.in[1] = 0 => cell.out = <<"No error condition is present">>
       /\ cell.in[1] \in 0 .. 15 =>
            cell.out = <<dfu_status_names[cell.in[1] + 1]>> /\ cell.out # <<"INVALID">>
       /\ cell.in[1] > 15 => cell.out = <<"INVALID">>
       /\ \/ cell.out = <<"INVALID">>
          \/ \E i \in 1 .. 16 : cell.out = <<dfu_status_names[i]>>

\* C16: whenever dfu_flash or dfu_flash_filename has returned, *finished is 1 or
\* -1, and it is 1 exactly when the value returned is 0.
C16_OutcomeReportedOnce ==
  pc = "returned" =>
    /\ finished \in {1, -1}
    /\ finished = 1 <=> retval = 0

\* C17: after the normalization loop has ended with status OK the download
\* engine is the next exchange; after it has ended with another status exactly
\* one CLRSTATUS and then one GETSTATUS are issued and the engine follows
\* whatever that GETSTATUS returned; and that CLRSTATUS / GETSTATUS pair is
\* issued only when the loop ended in state dfuIDLE.
C17_RecoveryPairOnlyWhenIdle ==
  LET last(op, phase) == lastReq.op = op /\ lastReq.phase = phase
  IN  /\ pc = "xfer" =>
           IF run.loopStatus = <<DFU_STATUS_OK>>
           THEN last("GETSTATUS", "loop")
           ELSE last("GETSTATUS", "post")
      /\ pc = "post_clear" => last("GETSTATUS", "loop")
      /\ pc = "post_get" => last("CLRSTATUS", "post")
      /\ last("CLRSTATUS", "post") => pc = "post_get"
      /\ last("GETSTATUS", "post") => pc \in {"post_sleep", "xfer"}
      /\ lastReq.phase = "post" =>
           /\ run.loopStatus # <<DFU_STATUS_OK>>
           /\ run.loopState = <<DFU_STATE_dfuIDLE>>

\* C18: no step of dfu_flash changes a Match Criterion other than match_vendor
\* and match_product; each of the two changes only from an unset (negative)
\* value, only to the id of the loaded file, and only when that id is not
\* 0xFFFF; and the step that loads the file does adopt the id in that case.
C18_OnlyUnsetIdsAdopted ==
  [][/\ match_rest' = match_rest
     /\ match_vendor' # match_vendor =>
          /\ match_vendor < 0
          /\ file'.idVendor # WILDCARD_ID
          /\ match_vendor' = file'.idVendor
     /\ match_product' # match_product =>
          /\ match_product < 0
          /\ file'.idProduct # WILDCARD_ID
          /\ match_product' = file'.idProduct
     /\ (pc = "load" /\ pc' = "probe") =>
          /\ (match_vendor < 0 /\ file'.idVendor # WILDCARD_ID) =>
               match_vendor' = file'.idVendor
          /\ (match_product < 0 /\ file'.idProduct # WILDCARD_ID) =>
               match_product' = file'.idProduct
    ]_vars

\* a file with a vendor id and no product id has been loaded with both
\* criteria unset: the vendor id is adopted, the product criterion stays unset
C18_Witness ==
  /\ pc = "probe"
  /\ file = [idVendor |-> 1155, idProduct |-> WILDCARD_ID]
  /\ match_vendor = 1155
  /\ match_product = -1

\* C19: in every call the download engine is invoked at most once, and only
\* after these steps in this order: the enumerator resolved exactly one
\* candidate whose ids the file's ids match, the device was opened, the
\* interface claimed, the alternate setting selected and a first GETSTATUS
\* issued; once the engine has been invoked it is the call's last exchange.
C19_EngineOnceAfterSetup ==
  /\ run.engineCalls <= 1
  /\ run.engineCalls > 0 =>
       /\ run.trail = <<"probe", "open", "claim", "setalt", "getstatus", "engine">>
       /\ Len(dfu_root) = 1
       /\ file.idVendor \in {WILDCARD_ID, dfu_root[1].vendor}
       /\ file.idProduct \in {WILDCARD_ID, dfu_root[1].product}
       /\ run.opened
       /\ run.loopState # <<>>
       /\ lastReq.op = "DNLOAD"
  /\ lastReq.op = "DNLOAD" => run.engineCalls = 1

\* a call that invoked the engine has returned
C19_Witness ==
  /\ pc = "returned"
  /\ run.engineCalls = 1
  /\ lastReq.op = "DNLOAD"

\* C20: against a protocol-compliant device, with no transport failure and a
\* download engine that returns, the normalization loop issues at most two
\* GETSTATUS and at most one CLRSTATUS or ABORT, whatever state the device
\* starts in, and every call of dfu_flash returns.
C20_CompliantDeviceTerminates ==
  /\ [](run.loopGets <= 2 /\ run.loopFixes <= 1)
  /\ (pc = "load") ~> (pc = "returned")

\* the loop has cleared dfuERROR and its second GETSTATUS reports dfuIDLE
C20_Witness ==
  /\ pc = "switch"
  /\ run.loopGets = 2
  /\ run.loopFixes = 1
  /\ lastReq.owed = {}
  /\ status.bState = DFU_STATE_dfuIDLE

====
